---- MODULE Spec2Model ----
(***************************************************************************)
(* DocuScope AI: the DocuScopeAI session class of main.py (model           *)
(* initialisation, file validation, document loading, question answering,  *)
(* the interactive loop) and the web handler of app.py (process_document    *)
(* and the request body of main).                                           *)
(*                                                                          *)
(* Strings are sequences of one-character strings, so that strip, lower,    *)
(* Path.suffix, endswith and slicing are computed as Python computes them.  *)
(* The external libraries (loaders, embedding provider, vector store,       *)
(* chain, language model) are modelled by their call contract: each call    *)
(* either returns or raises, chosen by the environment.                     *)
(***************************************************************************)
EXTENDS Integers, Sequences, FiniteSets, TLC

VARIABLES
    prog,        \* what this process runs: the library ("main.py"), the web
                 \* handler ("app.py"), main() ("cli") or an example script
    qa_chain,    \* self.qa_chain of the DocuScopeAI session
    embedding,   \* self.embedding
    llm,         \* self.llm
    inLoop,      \* TRUE while interactive_session's while-loop is running
    loaded,      \* the path of the last load_document that returned True
    prevLoaded,  \* the path of the successful load_document before that one
    tempFiles,   \* app.py: the temp_<name> files in the working directory, each
                 \* with its content and the request that wrote it
    op,          \* the operation that ran last
    arg,         \* its inputs: the path or file name, the query, the library
                 \* call the environment made raise
    pre,         \* the session's fields as they were when it was called
    ret,         \* what it returned
    out,         \* what it printed / rendered, in order
    calls,       \* how often it called each external collaborator
    pc,          \* main.py main(): the step the process is at
    filePath,    \* main.py main(): its local file_path
    trace,       \* main.py main(): the steps run so far, with their results
    exitCode,    \* main.py main(): the process exit status, -1 while it runs
    web,         \* app.py: the requests being handled at the same time
    batch,       \* the examples: document list position, results, preset
    asked        \* the examples: what ask_question was called on, per call

\* the state of main.py's main(), of app.py's concurrent requests and of the
\* example scripts
ext == <<pc, filePath, trace, exitCode, web, batch, asked>>

vars == <<prog, qa_chain, embedding, llm, inLoop, loaded, prevLoaded, tempFiles,
          op, arg, pre, ret, out, calls, ext>>

----------------------------------------------------------------------------
(* Python string operations *)

UpperChars == <<"A","B","C","D","E","F","G","H","I","J","K","L","M",
                "N","O","P","Q","R","S","T","U","V","W","X","Y","Z">>

LowerChars == <<"a","b","c","d","e","f","g","h","i","j","k","l","m",
                "n","o","p","q","r","s","t","u","v","w","x","y","z">>

\* str.lower() on one character
LowerChar(c) ==
    IF \E i \in 1..Len(UpperChars) : UpperChars[i] = c
    THEN LowerChars[CHOOSE i \in 1..Len(UpperChars) : UpperChars[i] = c]
    ELSE c

\* str.lower()
Lower(s) == [i \in 1..Len(s) |-> LowerChar(s[i])]

IsSpace(c) == c \in {" ", "\t", "\n"}

\* the first position at or after i that holds no whitespace, Len(s) + 1 if none
RECURSIVE SkipSpaces(_, _)
SkipSpaces(s, i) ==
    IF i > Len(s) THEN i
    ELSE IF IsSpace(s[i]) THEN SkipSpaces(s, i + 1) ELSE i

\* the last position at or before i that holds no whitespace, 0 if none
RECURSIVE SkipSpacesBack(_, _)
SkipSpacesBack(s, i) ==
    IF i < 1 THEN i
    ELSE IF IsSpace(s[i]) THEN SkipSpacesBack(s, i - 1) ELSE i

\* str.strip(): drop leading and trailing whitespace
Strip(s) ==
    LET lo == SkipSpaces(s, 1)
        hi == SkipSpacesBack(s, Len(s))
    IN  IF lo > hi THEN <<>> ELSE SubSeq(s, lo, hi)

\* s[:n]
Prefix(s, n) == SubSeq(s, 1, IF Len(s) < n THEN Len(s) ELSE n)

\* str.endswith(t)
EndsWith(s, t) ==
    /\ Len(s) >= Len(t)
    /\ SubSeq(s, Len(s) - Len(t) + 1, Len(s)) = t

\* str.startswith(t)
StartsWith(s, t) ==
    /\ Len(s) >= Len(t)
    /\ SubSeq(s, 1, Len(t)) = t

\* str.rfind(c) + 1: the last position of c in s, 0 when there is none
RFind(s, c) ==
    LET at == {i \in 1..Len(s) : s[i] = c}
    IN  IF at = {} THEN 0 ELSE CHOOSE i \in at : \A j \in at : j <= i

\* PurePath.name: the final path component
PathName(p) == SubSeq(p, RFind(p, "/") + 1, Len(p))

\* PurePath.suffix: the final component's last dot and what follows it,
\* empty when the dot leads or ends the name
PathSuffix(p) ==
    LET name == PathName(p)
        i    == RFind(name, ".")
    IN  IF 1 < i /\ i < Len(name) THEN SubSeq(name, i, Len(name)) ELSE <<>>

DotCsv == <<".", "c", "s", "v">>
DotPdf == <<".", "p", "d", "f">>

\* n copies of the character c
Rep(c, n) == [i \in 1..n |-> c]

----------------------------------------------------------------------------
(* The files of the machine and what the loaders make of them *)

\* rows of the largest document
MaxRows == 4

P_a_csv  == <<"a", ".", "c", "s", "v">>
P_B_CSV  == <<"B", ".", "C", "S", "V">>
P_r_Pdf  == <<"r", ".", "P", "d", "f">>
P_n_txt  == <<"n", ".", "t", "x", "t">>
P_e_csv  == <<"e", ".", "c", "s", "v">>
P_x_csv  == <<"t", "/", "x", ".", "c", "s", "v">>
P_hidden == <<".", "c", "s", "v">>
P_noext  == <<"d", "o", "c">>
P_dir    == <<"d", ".", "p", "d", "f">>
P_long   == <<"l", ".", "p", "d", "f">>

Paths == {P_a_csv, P_B_CSV, P_r_Pdf, P_n_txt, P_e_csv, P_x_csv,
          P_hidden, P_noext, P_dir}

\* Path.exists() / Path.is_file(): t/x.csv does not exist, d.pdf is a directory
FileKind(p) ==
    CASE p = P_x_csv -> "missing"
      [] p = P_dir   -> "dir"
      [] OTHER       -> "file"

TxtA     == Rep("a", 12)
TxtAsp   == <<" ">> \o Rep("a", 12) \o <<"\n">>
TxtB     == Rep("b", 12)
TxtShort == <<" ">> \o Rep("c", 5)
TxtD     == Rep("d", 12)
\* pages longer than what the CLI (200) and the web view (500) show
TxtLong  == Rep("x", 201)
TxtHuge  == <<" ">> \o Rep("y", 501)

\* the text of row i of a.csv: rows 1 and 4 are equal, row 2 differs from
\* them by surrounding whitespace only, row 3 is at most 10 characters long
RowText(i) ==
    CASE i % 5 = 1 -> TxtA
      [] i % 5 = 2 -> TxtAsp
      [] i % 5 = 3 -> TxtShort
      [] i % 5 = 4 -> TxtA
      [] OTHER     -> TxtB

\* the text units the parser finds in each file (rows of a CSV, pages of a PDF)
FileRows(p) ==
    CASE p = P_a_csv  -> [i \in 1..MaxRows |-> RowText(i)]
      [] p = P_B_CSV  -> <<TxtD, TxtA>>
      [] p = P_r_Pdf  -> <<TxtB>>
      [] p = P_n_txt  -> <<TxtD>>
      [] p = P_hidden -> <<TxtD>>
      [] p = P_noext  -> <<TxtD>>
      [] p = P_long   -> <<TxtLong, TxtHuge, TxtD, TxtB>>
      [] OTHER        -> <<>>

\* a Document: page_content plus the provenance the loader records
Chunk(path, i, text) == [source |-> path, row |-> i, page_content |-> text]

\* loader.load() on a readable file: one Document per row / page
LoaderDocs(path, rows) == [i \in 1..Len(rows) |-> Chunk(path, i, rows[i])]

----------------------------------------------------------------------------
(* The session and the outcome of one call *)

NoChain == [set |-> FALSE, vectordb |-> <<>>, llm |-> "None", k |-> 0]

NoCalls == [loader |-> 0, embed |-> 0, vectordb |-> 0, build |-> 0,
            chain |-> 0, llm |-> 0]

Session(c, e, l) == [qa_chain |-> c, embedding |-> e, llm |-> l]

Ret(v) == [value |-> v, query |-> <<>>, answer |-> "", source_documents |-> <<>>,
           chain |-> NoChain]

\* one printed / rendered item: a message, the answer, or a source snippet
Msg(kind, cause) == [kind |-> kind, cause |-> cause, label |-> 0, text |-> <<>>]

Shown(label, text) == [kind |-> "Source", cause |-> "", label |-> label, text |-> text]

Arg(path, query, fault) == [path |-> path, query |-> query, fault |-> fault]

Outcome(s, r, o, c) == [session |-> s, ret |-> r, out |-> o, calls |-> c]

\* DocuScopeAI.__init__
NewSession == Session(NoChain, "None", "None")

EmbeddingModel == "mxbai-embed-large"
LanguageModel  == "llama3.2:3b"

\* the retrieval count both entry points pass to as_retriever
DefaultK == 4

----------------------------------------------------------------------------
(* DocuScopeAI.initialize_models: embOK / llmOK say whether constructing     *)
(* OllamaEmbeddings / Ollama returns (TRUE) or raises (FALSE).               *)

initialize_models(s, embOK, llmOK) ==
    IF ~embOK
    THEN Outcome(s, Ret("False"), <<Msg("ModelInitError", "embedding")>>, NoCalls)
    ELSE IF ~llmOK
    THEN Outcome([s EXCEPT !.embedding = EmbeddingModel], Ret("False"),
                 <<Msg("ModelInitError", "llm")>>, NoCalls)
    ELSE Outcome([s EXCEPT !.embedding = EmbeddingModel, !.llm = LanguageModel],
                 Ret("True"), <<>>, NoCalls)

----------------------------------------------------------------------------
(* DocuScopeAI.validate_file *)

validate_file(s, file_path) ==
    IF file_path = <<>>
    THEN Outcome(s, Ret("False"), <<Msg("NoFilePath", "")>>, NoCalls)
    ELSE IF FileKind(file_path) = "missing"
    THEN Outcome(s, Ret("False"), <<Msg("FileNotFound", "")>>, NoCalls)
    ELSE IF FileKind(file_path) # "file"
    THEN Outcome(s, Ret("False"), <<Msg("NotAFile", "")>>, NoCalls)
    ELSE IF Lower(PathSuffix(file_path)) \notin {DotCsv, DotPdf}
    THEN Outcome(s, Ret("False"), <<Msg("UnsupportedFileType", "")>>, NoCalls)
    ELSE Outcome(s, Ret("True"), <<>>, NoCalls)

----------------------------------------------------------------------------
(* DocuScopeAI.load_document.  fault names the library call that raises in   *)
(* this run, if it is reached: "loader", "embedding", "vectordb", "chain",   *)
(* or "none".                                                                *)

LoadFaults == {"none", "loader", "embedding", "vectordb", "chain"}

\* CliLoaderFor with the else branch falling back to the CSV loader
CliLoaderForFallback(file_path) ==
    IF Lower(PathSuffix(file_path)) = DotPdf THEN "PyPDFLoader" ELSE "CSVLoader"

\* which loader class the CLI picks for a path
CliLoaderFor(file_path) ==
    IF Lower(PathSuffix(file_path)) = DotCsv THEN "CSVLoader"
    ELSE IF Lower(PathSuffix(file_path)) = DotPdf THEN "PyPDFLoader"
    ELSE "none"

\* FromDocuments adding the documents to the store the session had before
FromDocumentsMerged(prior, docs) == prior \o docs

\* Chroma.from_documents(documents=docs, ...): a store holding the documents
\* it was given
FromDocuments(prior, docs) == docs

\* RetrievalQA.from_chain_type(llm, vectordb.as_retriever(k), ...)
FromChainType(l, vectordb, k) ==
    [set |-> TRUE, vectordb |-> vectordb, llm |-> l, k |-> k]

\* IsEmpty with the check left out
IsEmptyUnchecked(docs) == FALSE

\* "if not docs": the loader found nothing
IsEmpty(docs) == Len(docs) = 0

\* LoadFailed on a load_document that cleared self.qa_chain before it failed
LoadFailedCleared(s, cause, c) ==
    Outcome([s EXCEPT !.qa_chain = NoChain], Ret("False"),
            <<Msg("LoadError", cause)>>, c)

\* the except branch of load_document: print, log, return False
LoadFailed(s, cause, c) ==
    Outcome(s, Ret("False"), <<Msg("LoadError", cause)>>, c)

load_document(s, file_path, fault) ==
    LET loader == CliLoaderFor(file_path)
        docs   == LoaderDocs(file_path, FileRows(file_path))
        c1     == [NoCalls EXCEPT !.loader = 1]
        c2     == [c1 EXCEPT !.embed = 1, !.vectordb = 1]
        c3     == [c2 EXCEPT !.build = 1]
    IN  IF loader = "none"
        THEN Outcome(s, Ret("False"), <<Msg("UnsupportedFileType", "")>>, NoCalls)
        ELSE IF FileKind(file_path) # "file"
        THEN LoadFailed(s, "FileNotFound", c1)
        ELSE IF fault = "loader"
        THEN LoadFailed(s, "loader", c1)
        ELSE IF IsEmpty(docs)
        THEN Outcome(s, Ret("False"), <<Msg("EmptyDocument", "")>>, c1)
        ELSE IF fault \in {"embedding", "vectordb"}
        THEN LoadFailed(s, fault, c2)
        ELSE IF fault = "chain" \/ s.llm = "None"
        THEN LoadFailed(s, "chain", c3)
        ELSE Outcome(
                [s EXCEPT !.qa_chain =
                    FromChainType(s.llm,
                                  FromDocuments(s.qa_chain.vectordb, docs),
                                  DefaultK)],
                Ret("True"), <<Msg("Processed", "")>>, c3)

----------------------------------------------------------------------------
(* The chain: embed the query, retrieve the k nearest chunks, generate.      *)

\* what the retriever may return: min(k, size) distinct entries of the store,
\* in the order of a similarity ranking the model does not fix
Retrievals(chain) ==
    LET n == Len(chain.vectordb)
        m == IF n < chain.k THEN n ELSE chain.k
        sel == {f \in [1..m -> 1..n] : \A i, j \in 1..m : i # j => f[i] # f[j]}
    IN  {[i \in 1..m |-> chain.vectordb[f[i]]] : f \in sel}

AskFaults == {"none", "embedding", "retrieval", "llm"}

\* the retriever's answer in a run of the chain: nothing when the chain
\* raises or there is no chain
Ranked(chain, fault) ==
    IF chain.set /\ fault = "none" THEN Retrievals(chain) ELSE {<<>>}

\* the calls one invocation of the chain makes before it returns or raises
ChainCalls(fault) ==
    [NoCalls EXCEPT !.chain = 1, !.embed = 1,
                    !.llm = IF fault \in {"none", "llm"} THEN 1 ELSE 0]

\* the dict the chain returns
ChainResult(query, picks) ==
    [value |-> "Result", query |-> query, answer |-> "answer",
     source_documents |-> picks, chain |-> NoChain]

\* AskFailed that invokes the chain a second time before giving up
AskFailedRetried(s, cause, c) ==
    Outcome(s, Ret("None"), <<Msg("PipelineError", cause)>>,
            [c EXCEPT !.chain = c.chain + 1])

\* ask_question without the "if not self.qa_chain" guard
ask_question_unguarded(s, query, fault, picks) ==
    IF fault # "none"
    THEN Outcome(s, Ret("None"), <<Msg("PipelineError", fault)>>, ChainCalls(fault))
    ELSE Outcome(s, ChainResult(query, picks), <<>>, ChainCalls(fault))

\* AskFailed that drops the chain after a failure
AskFailedCleared(s, cause, c) ==
    Outcome([s EXCEPT !.qa_chain = NoChain], Ret("None"),
            <<Msg("PipelineError", cause)>>, c)

\* the except branch of ask_question: print the cause, log, return None
AskFailed(s, cause, c) ==
    Outcome(s, Ret("None"), <<Msg("PipelineError", cause)>>, c)

\* DocuScopeAI.ask_question
ask_question(s, query, fault, picks) ==
    IF ~s.qa_chain.set
    THEN Outcome(s, Ret("None"), <<Msg("NoDocumentLoaded", "")>>, NoCalls)
    ELSE IF fault # "none"
    THEN AskFailed(s, fault, ChainCalls(fault))
    ELSE Outcome(s, ChainResult(query, picks), <<>>, ChainCalls(fault))

----------------------------------------------------------------------------
(* Showing the sources: the loop both front ends run over source_documents.  *)

CliMaxSources == 3
CliSnippetLen == 200
WebSnippetLen == 500
MinSnippetLen == 10

Ellipsis == <<".", ".", ".">>

\* for i, doc in enumerate(docs): show the stripped text cut to cut
\* characters unless it was seen before or is too short
RECURSIVE ShowFrom(_, _, _, _)
ShowFrom(docs, i, seen, cut) ==
    IF i > Len(docs) THEN <<>>
    ELSE LET snippet == Strip(docs[i].page_content)
         IN  IF snippet \notin seen /\ Len(snippet) > MinSnippetLen
             THEN <<Shown(i, Prefix(snippet, cut) \o Ellipsis)>>
                  \o ShowFrom(docs, i + 1, seen \cup {snippet}, cut)
             ELSE ShowFrom(docs, i + 1, seen, cut)

\* ShowSourcesCli without the [:3] slice
ShowSourcesCliAll(docs) == ShowFrom(docs, 1, {}, CliSnippetLen)

\* interactive_session: result["source_documents"][:3], 200 characters each
ShowSourcesCli(docs) == ShowFrom(Prefix(docs, CliMaxSources), 1, {}, CliSnippetLen)

\* app.py main: every source document, 500 characters each
ShowSourcesWeb(docs) == ShowFrom(docs, 1, {}, WebSnippetLen)

----------------------------------------------------------------------------
(* One iteration of interactive_session's loop.  ev is what input() does:    *)
(* return a line, or raise KeyboardInterrupt / EOFError.  fault "interrupt"  *)
(* is a KeyboardInterrupt raised while the chain runs: ask_question's        *)
(* "except Exception" lets it pass, the loop's handler catches it.           *)

\* ExitWords without the one-letter word
ExitWordsLong == {<<"e","x","i","t">>, <<"q","u","i","t">>, <<"b","y","e">>}

ExitWords == {<<"e","x","i","t">>, <<"q","u","i","t">>, <<"q">>, <<"b","y","e">>}

Line(text) == [kind |-> "line", text |-> text]
Interrupt  == [kind |-> "KeyboardInterrupt", text |-> <<>>]
EndOfInput == [kind |-> "EOFError", text |-> <<>>]

StepFaults == AskFaults \cup {"interrupt"}

\* ret.value is "Break" when the loop ends and "Continue" when it prompts again
interactive_step(s, ev, fault, picks) ==
    IF ev.kind # "line"
    THEN Outcome(s, Ret("Break"), <<Msg("Goodbye", ev.kind)>>, NoCalls)
    ELSE LET query == Strip(ev.text)
         IN  IF Lower(query) \in ExitWords
             THEN Outcome(s, Ret("Break"), <<Msg("Goodbye", "exit")>>, NoCalls)
             ELSE IF query = <<>>
             THEN Outcome(s, Ret("Continue"), <<>>, NoCalls)
             ELSE IF fault = "interrupt" /\ s.qa_chain.set
             THEN Outcome(s, Ret("Break"), <<Msg("Goodbye", "KeyboardInterrupt")>>,
                          [NoCalls EXCEPT !.chain = 1])
             ELSE LET a == ask_question(s, query, fault, picks)
                  IN  IF a.ret.value = "Result"
                      THEN Outcome(a.session,
                                   [a.ret EXCEPT !.value = "Continue"],
                                   a.out \o <<Msg("Answer", "")>>
                                         \o ShowSourcesCli(a.ret.source_documents),
                                   a.calls)
                      ELSE Outcome(a.session, Ret("Continue"), a.out, a.calls)

----------------------------------------------------------------------------
(* app.py *)

TempPrefix == <<"t", "e", "m", "p", "_">>

AddCalls(a, b) == [x \in DOMAIN a |-> a[x] + b[x]]

\* which loader class process_document picks for a path
WebLoaderFor(file_path) ==
    IF EndsWith(file_path, DotCsv) THEN "CSVLoader"
    ELSE IF EndsWith(file_path, DotPdf) THEN "PyPDFLoader"
    ELSE "none"

\* the except branch of process_document: st.error, log, return None
ProcessFailed(s, cause, c) ==
    Outcome(s, Ret("None"), <<Msg("LoadError", cause)>>, c)

\* process_document(file_path, embedding, llm); rows is what the file holds,
\* s.embedding and s.llm are the models passed in.  ret.chain is the chain
\* returned, NoChain standing for None.
process_document(s, file_path, rows, fault) ==
    LET loader == WebLoaderFor(file_path)
        docs   == LoaderDocs(file_path, rows)
        c1     == [NoCalls EXCEPT !.loader = 1]
        c2     == [c1 EXCEPT !.embed = 1, !.vectordb = 1]
        c3     == [c2 EXCEPT !.build = 1]
    IN  IF loader = "none"
        THEN Outcome(s, Ret("None"), <<Msg("UnsupportedFileType", "")>>, NoCalls)
        ELSE IF fault = "loader"
        THEN ProcessFailed(s, "loader", c1)
        ELSE IF IsEmpty(docs)
        THEN Outcome(s, Ret("None"), <<Msg("EmptyDocument", "")>>, c1)
        ELSE IF fault \in {"embedding", "vectordb"}
        THEN ProcessFailed(s, fault, c2)
        ELSE IF fault = "chain" \/ s.llm = "None"
        THEN ProcessFailed(s, "chain", c3)
        ELSE Outcome(s,
                [Ret("Chain") EXCEPT !.chain =
                    FromChainType(s.llm, FromDocuments(<<>>, docs), DefaultK)],
                <<>>, c3)

NoUpload == [present |-> FALSE, name |-> <<>>, rows |-> <<>>]
Upload(name, rows) == [present |-> TRUE, name |-> name, rows |-> rows]

\* the query section of main, run once process_document returned a chain
web_query(chain, query, pressed, fault, picks) ==
    IF ~pressed
    THEN Outcome(NewSession, Ret("NoQuery"), <<>>, NoCalls)
    ELSE IF Strip(query) = <<>>
    THEN Outcome(NewSession, Ret("NoQuery"), <<Msg("BlankQuery", "")>>, NoCalls)
    ELSE IF fault # "none"
    THEN Outcome(NewSession, Ret("NoQuery"), <<Msg("PipelineError", fault)>>,
                 ChainCalls(fault))
    ELSE Outcome(NewSession, ChainResult(query, picks),
                 <<Msg("Answer", "")>> \o ShowSourcesWeb(picks),
                 ChainCalls(fault))

\* one run of app.py's main for one request.  initOK / saveOK say whether
\* initialize_models / writing the temporary file succeed.
web_main(up, query, pressed, initOK, saveOK, loadFault, askFault, picks) ==
    IF ~initOK
    THEN Outcome(NewSession, Ret("Stopped"), <<Msg("ModelInitError", "")>>, NoCalls)
    ELSE IF ~up.present
    THEN Outcome(NewSession, Ret("NoUpload"), <<Msg("UploadPrompt", "")>>, NoCalls)
    ELSE IF ~saveOK
    THEN Outcome(NewSession, Ret("None"), <<Msg("SaveError", "")>>, NoCalls)
    ELSE LET s == Session(NoChain, EmbeddingModel, LanguageModel)
             p == process_document(s, TempPrefix \o up.name, up.rows, loadFault)
         IN  IF ~p.ret.chain.set
             THEN Outcome(NewSession, p.ret, <<Msg("Uploaded", "")>> \o p.out, p.calls)
             ELSE LET q == web_query(p.ret.chain, query, pressed, askFault, picks)
                  IN  Outcome(NewSession,
                              [q.ret EXCEPT !.chain = p.ret.chain],
                              <<Msg("Uploaded", "")>> \o p.out
                                  \o <<Msg("Processed", "")>> \o q.out,
                              AddCalls(p.calls, q.calls))

----------------------------------------------------------------------------
(* The state machine *)

Queries == {<<>>, <<" ", "\t">>, <<" ", "h", "i", " ">>, <<"B", "y", "e", " ">>}

\* further lines typed at the loop's prompt
LoopLines == {<<"q">>, <<" ", "Q", "U", "I", "T">>, <<"e", "x", "i", "t", "\n">>,
              <<"q", "q">>}

\* the document whose pages are longer than the snippets shown
LongPaths == {P_long}

Inputs == {Line(q) : q \in Queries \cup LoopLines} \cup {Interrupt, EndOfInput}

\* what a user can upload: any regular file, under its own name
Uploads == {Upload(PathName(p), FileRows(p)) : p \in {x \in Paths : FileKind(x) = "file"}}
           \cup {NoUpload}

\* the session and the record of the last call when a process starts
Fresh ==
    /\ qa_chain = NoChain
    /\ embedding = "None"
    /\ llm = "None"
    /\ inLoop = FALSE
    /\ loaded = <<>>
    /\ prevLoaded = <<>>
    /\ tempFiles = {}
    /\ op = "none"
    /\ arg = Arg(<<>>, <<>>, "none")
    /\ pre = NewSession
    /\ ret = Ret("None")
    /\ out = <<>>
    /\ calls = NoCalls

\* main.py's main(), app.py's concurrent requests and the examples not started
ExtIdle ==
    /\ pc = "none"
    /\ filePath = <<>>
    /\ trace = <<>>
    /\ exitCode = -1
    /\ web = <<>>
    /\ batch = [i |-> 0, preset |-> "none"]
    /\ asked = <<>>

Init ==
    /\ prog \in {"main.py", "app.py"}
    /\ Fresh
    /\ ExtIdle

Self == Session(qa_chain, embedding, llm)

\* the session and the record of the call after a method of the session ran
Apply(name, a, o) ==
    /\ qa_chain' = o.session.qa_chain
    /\ embedding' = o.session.embedding
    /\ llm' = o.session.llm
    /\ op' = name
    /\ arg' = a
    /\ pre' = Self
    /\ ret' = o.ret
    /\ out' = o.out
    /\ calls' = o.calls

InitializeModels ==
    /\ prog = "main.py" /\ ~inLoop
    /\ \E embOK, llmOK \in BOOLEAN :
          Apply("initialize_models", Arg(<<>>, <<>>, "none"),
                initialize_models(Self, embOK, llmOK))
    /\ UNCHANGED <<ext, prog, inLoop, loaded, prevLoaded, tempFiles>>

ValidateFile ==
    /\ prog = "main.py" /\ ~inLoop
    /\ \E p \in Paths \cup {<<>>} :
          Apply("validate_file", Arg(p, <<>>, "none"), validate_file(Self, p))
    /\ UNCHANGED <<ext, prog, inLoop, loaded, prevLoaded, tempFiles>>

\* load_document called on one of paths
LoadDocumentFrom(paths) ==
    /\ prog = "main.py" /\ ~inLoop
    /\ \E p \in paths, fault \in LoadFaults :
          LET o == load_document(Self, p, fault)
          IN  /\ Apply("load_document", Arg(p, <<>>, fault), o)
              /\ loaded' = IF o.ret.value = "True" THEN p ELSE loaded
              /\ prevLoaded' = IF o.ret.value = "True" THEN loaded ELSE prevLoaded
    /\ UNCHANGED <<ext, prog, inLoop, tempFiles>>

LoadDocument == LoadDocumentFrom(Paths)

LoadLongDocument == LoadDocumentFrom(LongPaths)

AskQuestion ==
    /\ prog = "main.py" /\ ~inLoop
    /\ \E q \in Queries, fault \in AskFaults :
          \E picks \in Ranked(qa_chain, fault) :
             Apply("ask_question", Arg(<<>>, q, fault),
                   ask_question(Self, q, fault, picks))
    /\ UNCHANGED <<ext, prog, inLoop, loaded, prevLoaded, tempFiles>>

\* interactive_session is entered: the banner is printed, the loop starts
InteractiveSession ==
    /\ prog = "main.py" /\ ~inLoop
    /\ inLoop' = TRUE
    /\ Apply("interactive_session", Arg(<<>>, <<>>, "none"),
             Outcome(Self, Ret("Continue"), <<>>, NoCalls))
    /\ UNCHANGED <<ext, prog, loaded, prevLoaded, tempFiles>>

InteractiveStep ==
    /\ prog = "main.py" /\ inLoop
    /\ \E ev \in Inputs, fault \in StepFaults :
          \E picks \in Ranked(qa_chain, fault) :
             LET o == interactive_step(Self, ev, fault, picks)
             IN  /\ Apply("interactive_step",
                          Arg(<<>>, ev.text, IF ev.kind # "line" THEN ev.kind ELSE fault),
                          o)
                 /\ inLoop' = (o.ret.value = "Continue")
    /\ UNCHANGED <<ext, prog, loaded, prevLoaded, tempFiles>>

\* the chain a request gets from process_document when nothing fails before it
WebChain(up, initOK, saveOK, loadFault) ==
    web_main(up, <<>>, FALSE, initOK, saveOK, loadFault, "none", <<>>).ret.chain

\* the Ask button is rendered only once a chain was built
Pressable(chain) == IF chain.set THEN BOOLEAN ELSE {FALSE}

\* one request carrying one of uploads, handled from start to end
WebRequestFrom(uploads) ==
    /\ prog = "app.py"
    /\ \E up \in uploads, initOK, saveOK \in BOOLEAN, loadFault \in LoadFaults :
          \E pressed \in Pressable(WebChain(up, initOK, saveOK, loadFault)) :
          \E q \in (IF pressed THEN Queries ELSE {<<>>}) :
          \E askFault \in (IF pressed THEN AskFaults ELSE {"none"}) :
             \E picks \in Ranked(WebChain(up, initOK, saveOK, loadFault), askFault) :
                /\ Apply("web_main",
                         Arg(up.name, q, IF askFault # "none" THEN askFault ELSE loadFault),
                         web_main(up, q, pressed, initOK, saveOK, loadFault,
                                  askFault, picks))
                /\ tempFiles' = {f \in tempFiles : f.path # TempPrefix \o up.name}
    /\ UNCHANGED <<ext, prog, inLoop, loaded, prevLoaded>>

WebRequest == WebRequestFrom(Uploads)

WebLongRequest ==
    WebRequestFrom({Upload(PathName(p), FileRows(p)) : p \in LongPaths})

Next ==
    \/ InitializeModels
    \/ ValidateFile
    \/ LoadDocument
    \/ AskQuestion
    \/ InteractiveSession
    \/ InteractiveStep
    \/ WebRequest

Spec == Init /\ [][Next]_vars

\* the session and the web handler on a document with long pages
NextDisplay ==
    \/ InitializeModels
    \/ LoadLongDocument
    \/ InteractiveSession
    \/ InteractiveStep
    \/ WebLongRequest

SpecDisplay == Init /\ [][NextDisplay]_vars

----------------------------------------------------------------------------
(* main.py: get_file_path and main().  main() is followed call by call: pc   *)
(* is the call it makes next, trace the calls made so far.  A               *)
(* KeyboardInterrupt that arrives while initialize_models or load_document  *)
(* runs is not an Exception, so their handlers let it pass and main() has   *)
(* none: the interpreter ends the process with a traceback.                  *)

DQuote == <<"\"">>
SQuote == <<"'">>

\* one pass of get_file_path's loop on one event of input()
get_file_path(ev) ==
    IF ev.kind # "line"
    THEN [value |-> "None", path |-> <<>>]
    ELSE LET file_path == Strip(ev.text)
         IN  IF file_path = <<>>
             THEN [value |-> "Continue", path |-> <<>>]
             ELSE IF StartsWith(file_path, DQuote) /\ EndsWith(file_path, DQuote)
             THEN [value |-> "Path",
                   path |-> SubSeq(file_path, 2, Len(file_path) - 1)]
             ELSE IF StartsWith(file_path, SQuote) /\ EndsWith(file_path, SQuote)
             THEN [value |-> "Path",
                   path |-> SubSeq(file_path, 2, Len(file_path) - 1)]
             ELSE [value |-> "Path", path |-> file_path]

\* sys.argv[1] when the program is started with an argument
ArgvPaths == {P_a_csv, P_B_CSV, P_n_txt, P_x_csv, P_e_csv, <<>>}

\* what the user types at the file-path prompt
PromptLines ==
    { <<>>, <<" ", "\t">>,
      P_a_csv \o <<" ">>,
      DQuote \o P_a_csv \o DQuote,
      SQuote \o P_n_txt \o SQuote,
      SQuote \o P_e_csv \o DQuote,
      DQuote \o DQuote,
      DQuote,
      SQuote }

PromptInputs == {Line(l) : l \in PromptLines} \cup {Interrupt, EndOfInput}

\* the exit status of a Python process ended by an uncaught KeyboardInterrupt:
\* 1 before Python 3.8, 128 + SIGINT since
UncaughtInterruptCodes == {1, 130}

Step(name, ok, raised) == [step |-> name, ok |-> ok, raised |-> raised]

\* main() going on to the next call whatever the last one returned
AfterStepUnchecked(ok, next) == next

\* "if not <result>: sys.exit(...)": main() goes on only after a true result
AfterStep(ok, next) == IF ok THEN next ELSE "exited"

\* a call of main() returned ok; code is the status main() exits with if not
Advance(name, ok, next, code) ==
    /\ trace' = Append(trace, Step(name, ok, FALSE))
    /\ pc' = AfterStep(ok, next)
    /\ exitCode' = IF AfterStep(ok, next) = "exited" THEN code ELSE exitCode

\* a KeyboardInterrupt leaves main(): traceback, the session as s
Uncaught(name, s) ==
    /\ trace' = Append(trace, Step(name, FALSE, TRUE))
    /\ pc' = "exited"
    /\ exitCode' \in UncaughtInterruptCodes
    /\ Apply(name, Arg(filePath, <<>>, "interrupt"),
             Outcome(s, Ret("Raised"), <<Msg("Traceback", "KeyboardInterrupt")>>,
                     NoCalls))

InitCli ==
    /\ prog = "cli"
    /\ Fresh
    /\ pc = "initialize"
    /\ filePath = <<>>
    /\ trace = <<>>
    /\ exitCode = -1
    /\ web = <<>>
    /\ batch = [i |-> 0, preset |-> "none"]
    /\ asked = <<>>

MainInitialize ==
    /\ pc = "initialize"
    /\ \/ \E embOK, llmOK \in BOOLEAN :
             LET o == initialize_models(Self, embOK, llmOK)
             IN  /\ Apply("initialize_models", Arg(<<>>, <<>>, "none"), o)
                 /\ Advance("initialize_models", o.ret.value = "True", "path", 1)
       \/ \E e \in {embedding, EmbeddingModel} :
             Uncaught("initialize_models", [Self EXCEPT !.embedding = e])
    /\ UNCHANGED <<prog, inLoop, loaded, prevLoaded, tempFiles, filePath,
                   web, batch, asked>>

\* len(sys.argv) > 1: file_path = sys.argv[1], then "if not file_path"
MainArgv ==
    /\ pc = "path"
    /\ \E p \in ArgvPaths :
          /\ filePath' = p
          /\ Apply("argv", Arg(p, <<>>, "none"),
                   Outcome(Self, Ret("Path"), <<>>, NoCalls))
          /\ Advance("file_path", p # <<>>, "validate", 0)
    /\ UNCHANGED <<prog, inLoop, loaded, prevLoaded, tempFiles, web, batch, asked>>

\* file_path = get_file_path(), one prompt at a time, then "if not file_path"
MainPrompt ==
    /\ pc \in {"path", "prompt"}
    /\ \E ev \in PromptInputs :
          LET r == get_file_path(ev)
              said == IF r.value = "None" THEN <<Msg("Goodbye", ev.kind)>> ELSE <<>>
          IN  /\ Apply("get_file_path",
                       Arg(ev.text, <<>>, IF ev.kind = "line" THEN "none" ELSE ev.kind),
                       Outcome(Self, Ret(r.value), said, NoCalls))
              /\ IF r.value = "Continue"
                 THEN /\ pc' = "prompt"
                      /\ UNCHANGED <<filePath, trace, exitCode>>
                 ELSE /\ filePath' = r.path
                      /\ Advance("file_path", r.path # <<>>, "validate", 0)
    /\ UNCHANGED <<prog, inLoop, loaded, prevLoaded, tempFiles, web, batch, asked>>

MainValidate ==
    /\ pc = "validate"
    /\ LET o == validate_file(Self, filePath)
       IN  /\ Apply("validate_file", Arg(filePath, <<>>, "none"), o)
           /\ Advance("validate_file", o.ret.value = "True", "load", 1)
    /\ UNCHANGED <<prog, inLoop, loaded, prevLoaded, tempFiles, filePath,
                   web, batch, asked>>

MainLoad ==
    /\ pc = "load"
    /\ \/ \E fault \in LoadFaults :
             LET o == load_document(Self, filePath, fault)
             IN  /\ Apply("load_document", Arg(filePath, <<>>, fault), o)
                 /\ loaded' = IF o.ret.value = "True" THEN filePath ELSE loaded
                 /\ prevLoaded' = IF o.ret.value = "True" THEN loaded ELSE prevLoaded
                 /\ Advance("load_document", o.ret.value = "True", "session", 1)
       \/ /\ \E s \in {Self, load_document(Self, filePath, "none").session} :
                Uncaught("load_document", s)
          /\ UNCHANGED <<loaded, prevLoaded>>
    /\ UNCHANGED <<prog, inLoop, tempFiles, filePath, web, batch, asked>>

MainSession ==
    /\ pc = "session"
    /\ inLoop' = TRUE
    /\ Apply("interactive_session", Arg(<<>>, <<>>, "none"),
             Outcome(Self, Ret("Continue"), <<>>, NoCalls))
    /\ trace' = Append(trace, Step("interactive_session", TRUE, FALSE))
    /\ pc' = "loop"
    /\ UNCHANGED <<prog, loaded, prevLoaded, tempFiles, filePath, exitCode,
                   web, batch, asked>>

\* one pass of the loop; interactive_session returns on break and main() ends
MainLoopStep ==
    /\ pc = "loop"
    /\ \E ev \in Inputs, fault \in StepFaults :
          \E picks \in Ranked(qa_chain, fault) :
             LET o == interactive_step(Self, ev, fault, picks)
             IN  /\ Apply("interactive_step",
                          Arg(<<>>, ev.text, IF ev.kind # "line" THEN ev.kind ELSE fault),
                          o)
                 /\ inLoop' = (o.ret.value = "Continue")
                 /\ pc' = IF o.ret.value = "Continue" THEN "loop" ELSE "exited"
                 /\ exitCode' = IF o.ret.value = "Continue" THEN exitCode ELSE 0
    /\ UNCHANGED <<prog, loaded, prevLoaded, tempFiles, filePath, trace,
                   web, batch, asked>>

NextCli ==
    \/ MainInitialize
    \/ MainArgv
    \/ MainPrompt
    \/ MainValidate
    \/ MainLoad
    \/ MainSession
    \/ MainLoopStep

SpecCli == InitCli /\ [][NextCli]_vars

----------------------------------------------------------------------------
(* app.py: requests handled at the same time.  Streamlit runs main() once    *)
(* per browser session and interaction, each run in its own thread of the   *)
(* one server process, so the runs share the working directory.  A run is   *)
(* followed statement by statement where it touches the file system:        *)
(* open/write (253-254), process_document's loader.load (191),              *)
(* os.path.exists (314) and os.remove (315).                                 *)

Sessions == {1, 2}

\* what the browser sessions upload: two different files named a.csv and r.pdf
WebUploads == {Upload(PathName(P_a_csv), <<TxtA, TxtB>>),
               Upload(PathName(P_a_csv), <<TxtD>>),
               Upload(PathName(P_r_Pdf), <<TxtB>>)}

WebLoadFaults == {"none", "vectordb"}
WebAskFaults  == {"none", "llm"}
WebQueries    == {<<>>, <<"h", "i">>}

NotRead == [done |-> FALSE, found |-> FALSE, rows |-> <<>>]

IdleRequest == [pc |-> "idle", up |-> NoUpload, path |-> <<>>, read |-> NotRead,
                chain |-> NoChain]

File(path, rows, by) == [path |-> path, rows |-> rows, by |-> by]

FileAt(files, path) == {f \in files : f.path = path}

\* open(file_path, "wb") and write: the file is created or replaced
WriteFile(files, path, rows, by) ==
    (files \ FileAt(files, path)) \cup {File(path, rows, by)}

\* the finally block leaving the file where it is
RemoveFileSkipped(files, path) == files

\* os.remove(file_path)
RemoveFile(files, path) == files \ FileAt(files, path)

InitWeb ==
    /\ prog = "streamlit"
    /\ Fresh
    /\ pc = "none"
    /\ filePath = <<>>
    /\ trace = <<>>
    /\ exitCode = -1
    /\ web = [req |-> [r \in Sessions |-> IdleRequest], last |-> 0]
    /\ batch = [i |-> 0, preset |-> "none"]
    /\ asked = <<>>

\* request r took a step: its new fields, and what the step showed
WebStep(r, name, req, o) ==
    /\ web' = [req |-> [web.req EXCEPT ![r] = req], last |-> r]
    /\ Apply(name, Arg(req.path, <<>>, "none"),
             Outcome(NewSession, o.ret, o.out, o.calls))
    /\ UNCHANGED <<prog, inLoop, loaded, prevLoaded, pc, filePath, trace,
                   exitCode, batch, asked>>

Quiet(v) == Outcome(NewSession, Ret(v), <<>>, NoCalls)

\* a run of main() starts: models (236), uploader (242), file_path (250)
WebStart(r) ==
    /\ web.req[r].pc \in {"idle", "done"}
    /\ \E up \in WebUploads \cup {NoUpload}, initOK \in BOOLEAN :
          LET path == IF initOK /\ up.present THEN TempPrefix \o up.name ELSE <<>>
              next == IF initOK /\ up.present THEN "save" ELSE "done"
          IN  WebStep(r, "web_start",
                      [IdleRequest EXCEPT !.pc = next, !.up = up, !.path = path],
                      web_main(up, <<>>, FALSE, initOK, FALSE, "none", "none", <<>>))
    /\ UNCHANGED tempFiles

\* with open(file_path, "wb") as f: f.write(...): "open" fails before the
\* file is touched, "write" after it was created or emptied
WebSave(r) ==
    /\ web.req[r].pc = "save"
    /\ LET q == web.req[r]
       IN  \E how \in {"ok", "open", "write"} :
              /\ tempFiles' = IF how = "open" THEN tempFiles
                              ELSE WriteFile(tempFiles, q.path,
                                             IF how = "ok" THEN q.up.rows ELSE <<>>, r)
              /\ IF how = "ok"
                 THEN WebStep(r, "web_save", [q EXCEPT !.pc = "process"],
                              Outcome(NewSession, Ret("Saved"), <<>>, NoCalls))
                 ELSE WebStep(r, "web_save", [q EXCEPT !.pc = "finally"],
                              Outcome(NewSession, Ret("None"),
                                      <<Msg("SaveError", how)>>, NoCalls))

\* os.path.getsize (257) and process_document (262), which reads the file
\* that is at file_path now; both raise when there is none
WebProcess(r) ==
    /\ web.req[r].pc = "process"
    /\ LET q   == web.req[r]
           at  == FileAt(tempFiles, q.path)
       IN  IF at = {}
           THEN WebStep(r, "web_process",
                        [q EXCEPT !.pc = "finally",
                                  !.read = [done |-> TRUE, found |-> FALSE,
                                            rows |-> <<>>]],
                        Outcome(NewSession, Ret("None"),
                                <<Msg("SaveError", "FileNotFound")>>, NoCalls))
           ELSE \E f \in at, fault \in WebLoadFaults :
                   LET p == process_document(
                               Session(NoChain, EmbeddingModel, LanguageModel),
                               q.path, f.rows, fault)
                   IN  WebStep(r, "web_process",
                               [q EXCEPT !.pc = IF p.ret.chain.set THEN "query"
                                                ELSE "finally",
                                         !.read = [done |-> TRUE, found |-> TRUE,
                                                   rows |-> f.rows],
                                         !.chain = p.ret.chain],
                               p)
    /\ UNCHANGED tempFiles

\* the query section (267-306); an exception of the chain is caught at 302
WebQuery(r) ==
    /\ web.req[r].pc = "query"
    /\ LET q == web.req[r]
       IN  \E pressed \in BOOLEAN :
           \E query \in (IF pressed THEN WebQueries ELSE {<<>>}) :
           \E fault \in (IF pressed THEN WebAskFaults ELSE {"none"}) :
           \E picks \in Ranked(q.chain, fault) :
              WebStep(r, "web_query", [q EXCEPT !.pc = "finally"],
                      web_query(q.chain, query, pressed, fault, picks))
    /\ UNCHANGED tempFiles

\* finally: if os.path.exists(file_path)
WebFinally(r) ==
    /\ web.req[r].pc = "finally"
    /\ LET q == web.req[r]
       IN  WebStep(r, "web_finally",
                   [q EXCEPT !.pc = IF FileAt(tempFiles, q.path) # {} THEN "remove"
                                    ELSE "done"],
                   Quiet("None"))
    /\ UNCHANGED tempFiles

\* os.remove(file_path); it raises when the file has gone since the test
WebRemove(r) ==
    /\ web.req[r].pc = "remove"
    /\ LET q == web.req[r]
       IN  /\ tempFiles' = RemoveFile(tempFiles, q.path)
           /\ WebStep(r, "web_remove", [q EXCEPT !.pc = "done"],
                      IF FileAt(tempFiles, q.path) # {}
                      THEN Quiet("None")
                      ELSE Outcome(NewSession, Ret("Raised"),
                                   <<Msg("Traceback", "FileNotFoundError")>>, NoCalls))

NextWeb ==
    \E r \in Sessions :
        \/ WebStart(r)
        \/ WebSave(r)
        \/ WebProcess(r)
        \/ WebQuery(r)
        \/ WebFinally(r)
        \/ WebRemove(r)

SpecWeb == InitWeb /\ [][NextWeb]_vars

----------------------------------------------------------------------------
(* The example scripts: examples/02_batch_processing.py                      *)
(* (batch_analyze_documents), api_examples.py (batch_processing_example) and *)
(* examples/03_custom_configuration.py (the presets and main).  batch holds  *)
(* the script's locals (failed: the list positions whose file was missing   *)
(* or whose load_document returned False), asked what ask_question was      *)
(* called on.                                                                *)

Batch02  == "02_batch_processing.py"
BatchApi == "api_examples.py"
Custom03 == "03_custom_configuration.py"

\* the documents argument / the files list
DocumentLists == { <<P_r_Pdf, P_x_csv, P_B_CSV>>,
                   <<P_B_CSV, P_n_txt, P_r_Pdf>>,
                   <<P_e_csv, P_r_Pdf, P_dir>> }

Questions == << <<"h", "i">>, <<"w", "h", "y">> >>

Presets == <<"speed", "balanced", "quality", "custom">>

ExampleLoadFaults == {"none", "vectordb"}
ExampleAskFaults  == {"none", "llm"}

\* the k each preset asks for
PresetK(preset) ==
    CASE preset = "speed"   -> 2
      [] preset = "quality" -> 8
      [] preset = "custom"  -> 5
      [] OTHER              -> DefaultK

PresetEmbedding(preset) ==
    CASE preset = "speed"   -> "bge-small-en"
      [] preset = "quality" -> "bge-large-en"
      [] OTHER              -> EmbeddingModel

PresetLlm(preset) ==
    CASE preset = "speed"   -> "llama3.2:1b"
      [] preset = "quality" -> "mistral"
      [] OTHER              -> LanguageModel

\* setup_speed_optimized / setup_balanced / setup_quality_optimized /
\* setup_custom on a new session: ret.value is "App" when the function
\* returns the session and "Raised" when an exception leaves it
setup_preset(preset, embOK, llmOK) ==
    LET i == initialize_models(NewSession, embOK, llmOK)
    IN  IF preset = "balanced"
        THEN Outcome(i.session, Ret("App"), i.out, NoCalls)
        ELSE LET s == [i.session EXCEPT !.embedding = PresetEmbedding(preset),
                                        !.llm = PresetLlm(preset)]
             IN  IF ~s.qa_chain.set
                 THEN Outcome(s, Ret("Raised"),
                              i.out \o <<Msg("Error", "AttributeError")>>, NoCalls)
                 ELSE Outcome([s EXCEPT !.qa_chain.k = PresetK(preset)],
                              Ret("App"), i.out, NoCalls)

\* the loop asking a document's questions whatever load_document returned
SkipsMissingOnly(script, exists, loadOK) == script = Batch02 /\ ~exists

\* "if not Path(doc_path).exists(): continue", "if not app.load_document(
\* doc_path): continue" (02) and "if app.load_document(file_path):" (api)
Skips(script, exists, loadOK) == (script = Batch02 /\ ~exists) \/ ~loadOK

Script(script, docs) ==
    [script |-> script, docs |-> docs, phase |-> "init", i |-> 0, j |-> 0,
     failed |-> {}, results |-> {}, preset |-> "none"]

InitExamples ==
    /\ prog = "examples"
    /\ Fresh
    /\ pc = "none"
    /\ filePath = <<>>
    /\ trace = <<>>
    /\ exitCode = -1
    /\ web = <<>>
    /\ batch \in {Script(s, d) : s \in {Batch02, BatchApi}, d \in DocumentLists}
                 \cup {Script(Custom03, <<d>>) : d \in {P_r_Pdf, P_x_csv}}
    /\ asked = {}

ExampleFrame == <<prog, inLoop, tempFiles, pc, filePath, trace, exitCode, web>>

\* app = DocuScopeAI(); app.initialize_models()
BatchInitialize ==
    /\ batch.script \in {Batch02, BatchApi} /\ batch.phase = "init"
    /\ \E embOK, llmOK \in BOOLEAN :
          LET o == initialize_models(Self, embOK, llmOK)
          IN  /\ Apply("initialize_models", Arg(<<>>, <<>>, "none"), o)
              /\ batch' = IF batch.script = Batch02 /\ o.ret.value # "True"
                          THEN [batch EXCEPT !.phase = "done"]
                          ELSE [batch EXCEPT !.phase = "doc", !.i = 1]
    /\ UNCHANGED <<ExampleFrame, loaded, prevLoaded, asked>>

\* the next document of the list: the exists test (02) and load_document
BatchDocument ==
    /\ batch.script \in {Batch02, BatchApi} /\ batch.phase = "doc"
    /\ LET doc_path == batch.docs[batch.i]
           exists   == FileKind(doc_path) # "missing"
           next     == IF batch.i = Len(batch.docs)
                       THEN [batch EXCEPT !.phase = "done"]
                       ELSE [batch EXCEPT !.i = batch.i + 1]
       IN  IF batch.script = Batch02 /\ ~exists
           THEN /\ Apply("exists", Arg(doc_path, <<>>, "none"),
                         Outcome(Self, Ret("False"), <<Msg("FileNotFound", "")>>,
                                 NoCalls))
                /\ batch' = IF Skips(batch.script, exists, FALSE)
                            THEN [next EXCEPT !.failed = @ \cup {batch.i}]
                            ELSE [batch EXCEPT !.phase = "ask", !.j = 1,
                                               !.failed = @ \cup {batch.i}]
                /\ UNCHANGED <<loaded, prevLoaded>>
           ELSE \E fault \in ExampleLoadFaults :
                   LET o  == load_document(Self, doc_path, fault)
                       ok == o.ret.value = "True"
                   IN  /\ Apply("load_document", Arg(doc_path, <<>>, fault), o)
                       /\ loaded' = IF ok THEN doc_path ELSE loaded
                       /\ prevLoaded' = IF ok THEN loaded ELSE prevLoaded
                       /\ batch' = [(IF Skips(batch.script, exists, ok)
                                     THEN next
                                     ELSE [batch EXCEPT !.phase = "ask", !.j = 1])
                                       EXCEPT !.failed = IF ok THEN @
                                                         ELSE @ \cup {batch.i}]
    /\ UNCHANGED <<ExampleFrame, asked>>

\* one question asked of the current document and its entry in results
BatchAsk ==
    /\ batch.script \in {Batch02, BatchApi} /\ batch.phase = "ask"
    /\ LET doc_path == batch.docs[batch.i]
           question == Questions[batch.j]
       IN  \E fault \in ExampleAskFaults :
           \E picks \in Ranked(qa_chain, fault) :
              LET o     == ask_question(Self, question, fault, picks)
                  ok    == o.ret.value = "Result"
                  entry == [pos |-> batch.i, doc |-> doc_path, question |-> question,
                            answered |-> ok, index |-> qa_chain.vectordb,
                            sources |-> Len(o.ret.source_documents)]
                  kept  == IF ok \/ batch.script = Batch02
                           THEN batch.results \cup {entry} ELSE batch.results
                  after == IF batch.j < Len(Questions)
                           THEN [batch EXCEPT !.j = batch.j + 1]
                           ELSE IF batch.i = Len(batch.docs)
                           THEN [batch EXCEPT !.phase = "done"]
                           ELSE [batch EXCEPT !.phase = "doc", !.i = batch.i + 1,
                                              !.j = 0]
              IN  /\ Apply("ask_question", Arg(doc_path, question, fault), o)
                  /\ asked' = asked \cup {[pos |-> batch.i, doc |-> doc_path,
                                           index |-> qa_chain.vectordb]}
                  /\ batch' = [after EXCEPT !.results = kept]
    /\ UNCHANGED <<ExampleFrame, loaded, prevLoaded>>

\* 03 main: the next configuration's setup function, inside main's try
CustomSetup ==
    /\ batch.script = Custom03 /\ batch.phase \in {"init", "setup"}
    /\ batch.i < Len(Presets)
    /\ \E embOK, llmOK \in BOOLEAN :
          LET preset == Presets[batch.i + 1]
              o      == setup_preset(preset, embOK, llmOK)
              app    == IF o.ret.value = "App" THEN o.session ELSE NewSession
          IN  /\ qa_chain' = app.qa_chain
              /\ embedding' = app.embedding
              /\ llm' = app.llm
              /\ op' = "setup_preset"
              /\ arg' = Arg(<<>>, <<>>, "none")
              /\ pre' = NewSession
              /\ ret' = o.ret
              /\ out' = o.out
              /\ calls' = o.calls
              /\ batch' = [batch EXCEPT !.i = batch.i + 1, !.preset = preset,
                                        !.phase = IF o.ret.value = "App" THEN "load"
                                                  ELSE IF batch.i + 1 = Len(Presets)
                                                  THEN "done" ELSE "setup"]
    /\ loaded' = <<>> /\ prevLoaded' = <<>>
    /\ UNCHANGED <<ExampleFrame, asked>>

\* 03 main: app.load_document(document_path) on the configured session
CustomLoad ==
    /\ batch.script = Custom03 /\ batch.phase = "load"
    /\ \E fault \in ExampleLoadFaults :
          LET o  == load_document(Self, batch.docs[1], fault)
              ok == o.ret.value = "True"
          IN  /\ Apply("load_document", Arg(batch.docs[1], <<>>, fault), o)
              /\ loaded' = IF ok THEN batch.docs[1] ELSE loaded
              /\ prevLoaded' = IF ok THEN loaded ELSE prevLoaded
              /\ batch' = [batch EXCEPT !.phase = IF ok THEN "ask"
                                                  ELSE IF batch.i = Len(Presets)
                                                  THEN "done" ELSE "setup"]
    /\ UNCHANGED <<ExampleFrame, asked>>

\* 03 main: app.ask_question(question)
CustomAsk ==
    /\ batch.script = Custom03 /\ batch.phase = "ask"
    /\ \E fault \in ExampleAskFaults :
       \E picks \in Ranked(qa_chain, fault) :
          /\ Apply("ask_question", Arg(batch.docs[1], Questions[1], fault),
                   ask_question(Self, Questions[1], fault, picks))
          /\ asked' = asked \cup {[pos |-> batch.i, doc |-> batch.docs[1],
                                   index |-> qa_chain.vectordb]}
          /\ batch' = [batch EXCEPT !.phase = IF batch.i = Len(Presets)
                                              THEN "done" ELSE "setup"]
    /\ UNCHANGED <<ExampleFrame, loaded, prevLoaded>>

NextExamples ==
    \/ BatchInitialize
    \/ BatchDocument
    \/ BatchAsk
    \/ CustomSetup
    \/ CustomLoad
    \/ CustomAsk

SpecExamples == InitExamples /\ [][NextExamples]_vars

----------------------------------------------------------------------------
(* Properties *)

Supported(path) == Lower(PathSuffix(path)) \in {DotCsv, DotPdf}

\* the web request got as far as calling process_document
WebProcessed == op = "web_main" /\ Len(out) >= 1 /\ out[1].kind = "Uploaded"

\* the path process_document was given for the uploaded file
WebPath == TempPrefix \o arg.path

HasMsg(kind) == \E i \in 1..Len(out) : out[i].kind = kind

\* the texts of the source snippets that were shown, in order
ShownTexts == LET at == {i \in 1..Len(out) : out[i].kind = "Source"}
              IN  {<<i, out[i].text>> : i \in at}

NoDuplicate(texts) ==
    \A i, j \in 1..Len(texts) : i # j => texts[i] # texts[j]

SourceTexts == [i \in 1..Len(ret.source_documents) |->
                    ret.source_documents[i].page_content]

\* C1: ask_question on a session whose qa_chain is unset reports "no document
\* loaded", returns None and calls neither the chain nor any model.
C1_AskWithoutDocument ==
    (op = "ask_question" /\ ~pre.qa_chain.set)
        => /\ ret = Ret("None")
           /\ out = <<Msg("NoDocumentLoaded", "")>>
           /\ calls = NoCalls
           /\ Self = pre

C1_Witness ==
    /\ op = "ask_question" /\ ~pre.qa_chain.set
    /\ pre.llm # "None"
    /\ Strip(arg.query) # <<>>

\* C2: a load_document that returns False on a session that holds a chain
\* leaves qa_chain (its store, its model, its k) exactly as it was, whatever
\* step failed.
C2_FailedLoadKeepsChain ==
    (op = "load_document" /\ ret.value = "False" /\ pre.qa_chain.set)
        => /\ qa_chain = pre.qa_chain
           /\ qa_chain.vectordb = LoaderDocs(loaded, FileRows(loaded))

C2_Witness ==
    /\ op = "load_document" /\ ret.value = "False" /\ pre.qa_chain.set
    /\ arg.fault = "chain" /\ out = <<Msg("LoadError", "chain")>>
    /\ arg.path # loaded

\* C3: a blank query (empty or whitespace only) never reaches the chain: not
\* through ask_question on a session with a document, not through the
\* interactive loop, not through the web handler.
C3_BlankQueryRejected ==
    (/\ op \in {"ask_question", "interactive_step", "web_main"}
     /\ op = "ask_question" => pre.qa_chain.set
     /\ Strip(arg.query) = <<>>)
        => calls.chain = 0

\* C4: the store behind qa_chain holds exactly the chunks of the document
\* loaded last, and every source chunk an answer carries is one of them; a
\* chain process_document returns holds exactly the uploaded file's chunks.
C4_IndexIsLatestDocument ==
    /\ qa_chain.set => qa_chain.vectordb = LoaderDocs(loaded, FileRows(loaded))
    /\ op \in {"ask_question", "interactive_step"}
          => \A i \in 1..Len(ret.source_documents) :
                /\ ret.source_documents[i].source = loaded
                /\ \E j \in 1..Len(FileRows(loaded)) :
                      ret.source_documents[i] = Chunk(loaded, j, FileRows(loaded)[j])
    /\ (op = "web_main" /\ ret.chain.set)
          => /\ \A i \in 1..Len(ret.chain.vectordb) :
                   ret.chain.vectordb[i].source = WebPath
             /\ \A i \in 1..Len(ret.source_documents) :
                   ret.source_documents[i].source = WebPath

C4_Witness ==
    /\ op = "ask_question" /\ ret.value = "Result"
    /\ prevLoaded = P_a_csv /\ loaded = P_B_CSV
    /\ Len(ret.source_documents) = 2

\* C5: for a path whose extension is neither .csv nor .pdf, load_document and
\* process_document report the unsupported file type, call no loader, no
\* embedding provider, no vector store and no model, and build no chain; the
\* session keeps what it had.
C5_UnsupportedRejectedEarly ==
    /\ (op = "load_document" /\ ~Supported(arg.path))
          => /\ ret = Ret("False")
             /\ out = <<Msg("UnsupportedFileType", "")>>
             /\ calls = NoCalls
             /\ Self = pre
    /\ (WebProcessed /\ ~Supported(WebPath))
          => /\ out = <<Msg("Uploaded", ""), Msg("UnsupportedFileType", "")>>
             /\ calls = NoCalls
             /\ ~ret.chain.set

C5_Witness ==
    /\ op = "load_document" /\ arg.path = P_n_txt
    /\ pre.qa_chain.set /\ arg.fault = "none"

\* C6: every upper/lower-case spelling of .csv and .pdf is accepted by every
\* entry point: validate_file returns True for such an existing file, and
\* neither load_document nor the web handler reports an unsupported type.
C6_ExtensionCaseInsensitive ==
    /\ (op = "validate_file" /\ Supported(arg.path) /\ FileKind(arg.path) = "file")
          => ret.value = "True"
    /\ (op = "load_document" /\ Supported(arg.path))
          => ~HasMsg("UnsupportedFileType")
    /\ (WebProcessed /\ Supported(WebPath))
          => ~HasMsg("UnsupportedFileType")

\* C7: when the loader returns no chunks for a supported file, load_document
\* and process_document report the empty document after the one loader call,
\* compute no embedding, build no store and no chain, and the session keeps
\* what it had.
C7_EmptyDocumentRejected ==
    /\ (/\ op = "load_document" /\ Supported(arg.path)
        /\ FileKind(arg.path) = "file" /\ arg.fault # "loader"
        /\ FileRows(arg.path) = <<>>)
          => /\ ret = Ret("False")
             /\ out = <<Msg("EmptyDocument", "")>>
             /\ calls = [NoCalls EXCEPT !.loader = 1]
             /\ Self = pre
    /\ (/\ WebProcessed /\ WebLoaderFor(WebPath) # "none"
        /\ arg.fault # "loader" /\ arg.path = PathName(P_e_csv))
          => /\ out = <<Msg("Uploaded", ""), Msg("EmptyDocument", "")>>
             /\ calls = [NoCalls EXCEPT !.loader = 1]
             /\ ~ret.chain.set

C7_Witness ==
    /\ op = "load_document" /\ arg.path = P_e_csv /\ arg.fault = "none"
    /\ pre.qa_chain.set /\ pre.embedding # "None"

\* C8: when initialize_models returns False on a new session, neither
\* embedding nor llm holds a model afterwards.
C8_FailedInitLeavesNothing ==
    (op = "initialize_models" /\ ret.value = "False" /\ pre = NewSession)
        => embedding = "None" /\ llm = "None"

\* C9: no text occurs twice among the source documents ask_question returns,
\* nor among the snippets the interactive loop or the web handler shows.
C9_NoDuplicateSources ==
    /\ (op = "ask_question" /\ ret.value = "Result") => NoDuplicate(SourceTexts)
    /\ op \in {"interactive_step", "web_main"}
          => \A a, b \in ShownTexts : a[2] = b[2] => a = b

\* C10: when the chain raises inside ask_question, ask_question returns None
\* (nothing is raised to the caller), reports the error with its cause, has
\* called the chain once, and leaves the session as it was, chain included.
C10_ChainFailureSurfaced ==
    (op = "ask_question" /\ pre.qa_chain.set /\ arg.fault # "none")
        => /\ ret = Ret("None")
           /\ out = <<Msg("PipelineError", arg.fault)>>
           /\ calls.chain = 1
           /\ Self = pre
           /\ qa_chain.set

C10_Witness ==
    /\ op = "ask_question" /\ pre.qa_chain.set /\ arg.fault = "llm"
    /\ calls.llm = 1 /\ Strip(arg.query) # <<>>

\* the words that end the interactive loop
Sentinels == {<<"e", "x", "i", "t">>, <<"q", "u", "i", "t">>, <<"q">>,
              <<"b", "y", "e">>}

InputSignals == {"KeyboardInterrupt", "EOFError"}

\* C11: one pass of the interactive loop ends the loop exactly when input()
\* raised KeyboardInterrupt or EOFError, an interrupt arrived while the chain
\* ran, or the line, trimmed and lower-cased, is exit, quit, q or bye; after
\* every other pass (blank line, answered query, failed query) the loop is
\* still running; a sentinel word never reaches the chain.
C11_LoopEndsOnlyOnExit ==
    op = "interactive_step" =>
        LET signal   == \/ arg.fault \in InputSignals
                        \/ arg.fault = "interrupt" /\ calls.chain = 1
            sentinel == /\ arg.fault \notin InputSignals
                        /\ Lower(Strip(arg.query)) \in Sentinels
        IN  /\ ret.value \in {"Break", "Continue"}
            /\ (ret.value = "Break") <=> (signal \/ sentinel)
            /\ inLoop <=> (ret.value = "Continue")
            /\ sentinel => calls = NoCalls

C11_Witness ==
    /\ op = "interactive_step" /\ inLoop
    /\ arg.fault = "llm" /\ calls.chain = 1 /\ HasMsg("PipelineError")

C19_ChainChangesOnlyByLoad ==
    /\ pre.qa_chain.set => qa_chain.set
    /\ op \in {"ask_question", "interactive_step", "validate_file"} => Self = pre
    /\ op = "initialize_models" => qa_chain = pre.qa_chain
    /\ qa_chain # pre.qa_chain => (op = "load_document" /\ ret.value = "True")

C19_Witness ==
    /\ op = "ask_question" /\ pre.qa_chain.set /\ arg.fault = "retrieval"
    /\ prevLoaded # <<>> /\ loaded # prevLoaded

----------------------------------------------------------------------------
(* main() *)

MainOrder == <<"initialize_models", "file_path", "validate_file",
               "load_document", "interactive_session">>

\* a call of main() that returned a false value or was left by an exception
FailedSteps ==
    {i \in DOMAIN trace : /\ trace[i].step \in {"initialize_models", "validate_file",
                                                "load_document"}
                          /\ ~trace[i].ok}

(* C12: when main() has ended, the exit status is 0 or 1, and it is 1       *)
(* exactly when initialize_models, validate_file or load_document did not   *)
(* succeed; every other ended run (leaving the loop by exit word, interrupt *)
(* or end of input, abandoning the path prompt) has status 0.               *)
C12_ExitCodes ==
    pc = "exited" =>
        /\ exitCode \in {0, 1}
        /\ (exitCode = 1) <=> (FailedSteps # {})

(* C16: main() calls initialize_models, obtains the path, calls             *)
(* validate_file, load_document and interactive_session in this order, each *)
(* once and each only after all earlier ones succeeded; a query reaches the *)
(* chain only in the loop, after the one load succeeded, and the chain then *)
(* is the one built from the file main() was given.                         *)
C16_MainOrder ==
    /\ Len(trace) <= Len(MainOrder)
    /\ \A i \in DOMAIN trace :
          /\ trace[i].step = MainOrder[i]
          /\ i < Len(trace) => trace[i].ok
    /\ loaded # <<>> => prevLoaded = <<>> /\ loaded = filePath
    /\ (calls.chain > 0 \/ op = "interactive_step") =>
          /\ Len(trace) = Len(MainOrder)
          /\ trace[4].ok
          /\ loaded = filePath
          /\ qa_chain.set
          /\ qa_chain.vectordb = LoaderDocs(filePath, FileRows(filePath))

C16_Witness ==
    /\ op = "interactive_step" /\ calls.chain = 1 /\ ret.value = "Continue"
    /\ pc = "loop" /\ Len(trace) = Len(MainOrder)
    /\ HasMsg("Answer")

(* C20: get_file_path never returns the empty string: what it returns is    *)
(* None or a non-empty path, so main() never exits 0 on an entered path     *)
(* without validating it.                                                    *)
C20_PathNeverEmpty ==
    op = "get_file_path" =>
        /\ ret.value = "Path" => filePath # <<>>
        /\ (pc = "exited" /\ exitCode = 0) => ret.value = "None"

----------------------------------------------------------------------------
(* app.py: the temporary file *)

(* C13: when a request that carried an upload has finished, the file        *)
(* temp_<name> written for it does not exist: no file written by a finished *)
(* request is left, and at the moment a request finishes there is no file   *)
(* at its path, whether saving, processing or answering succeeded or failed.*)
C13_TempFileRemoved ==
    \A r \in Sessions :
        web.req[r].pc = "done" =>
            /\ \A f \in tempFiles : f.by # r
            /\ (web.last = r /\ web.req[r].up.present) =>
                   FileAt(tempFiles, web.req[r].path) = {}

C13_Witness ==
    \E r \in Sessions :
        /\ web.last = r /\ web.req[r].pc = "done" /\ op = "web_remove"
        /\ web.req[r].read.found /\ ~web.req[r].chain.set
        /\ \E o \in Sessions \ {r} : web.req[o].pc = "query"

(* C14: requests handled at the same time do not disturb each other: what   *)
(* a request's process_document reads is what that request saved, and from  *)
(* its save until its processing the file at its path is the one it wrote.  *)
C14_RequestsIsolated ==
    \A r \in Sessions :
        LET q == web.req[r]
        IN  /\ q.read.done => (q.read.found /\ q.read.rows = q.up.rows)
            /\ q.pc = "process" =>
                   FileAt(tempFiles, q.path) = {File(q.path, q.up.rows, r)}

----------------------------------------------------------------------------
(* The example scripts *)

(* C15: a session made by a configuration preset is constructed without     *)
(* error and, once a document is loaded, its chain retrieves the preset's k *)
(* chunks (2, 8, 5) instead of the default 4.                                *)
C15_PresetK ==
    batch.script = Custom03 =>
        /\ op = "setup_preset" => ret.value = "App"
        /\ (op = "ask_question" /\ ret.value = "Result") =>
               qa_chain.k = PresetK(batch.preset)

(* C18: in the batch scripts every question asked for a document, and every *)
(* entry recorded under it, used the index built from that document; for a  *)
(* document that is missing or whose load_document failed no question is    *)
(* asked and nothing is recorded.                                            *)
C18_BatchAnswersFromOwnDocument ==
    batch.script \in {Batch02, BatchApi} =>
        /\ \A a \in asked :
              /\ a.pos \notin batch.failed
              /\ a.index # <<>>
              /\ a.index = LoaderDocs(a.doc, FileRows(a.doc))
        /\ \A e \in batch.results :
              /\ e.pos \notin batch.failed
              /\ e.index = LoaderDocs(e.doc, FileRows(e.doc))

C18_Witness ==
    /\ batch.script \in {Batch02, BatchApi}
    /\ \E g, e \in batch.results, f \in batch.failed :
          g.pos < f /\ f < e.pos /\ g.answered /\ e.answered /\ g.doc # e.doc

====
